---- MODULE Spec2Model ----
(***************************************************************************)
(* RRBotModularJoint (ros2_control_demo_hardware/src/rrbot_actuator.cpp):  *)
(* a simulated one-joint actuator plugin.  The model keeps the plugin's    *)
(* five double members, the handles it exports to the host, and the        *)
(* position of the host inside the blocking lifecycle callbacks.           *)
(*                                                                         *)
(* double is modelled as a binary floating-point format with the IEEE-754  *)
(* structure (signed zero, subnormals, +-inf, NaN, round to nearest even)  *)
(* and a reduced precision and exponent range; int is a two's complement   *)
(* integer of reduced width.                                               *)
(***************************************************************************)
EXTENDS Integers, Sequences, FiniteSets, TLC

(***************************************************************************)
(* Format of the modelled double and int.                                  *)
(***************************************************************************)
\* significand bits of the modelled double (53 in IEEE binary64)
Prec == 3
\* number of binades above the subnormal range
MaxExp == 5
\* 1.0 is 2^FracBits times the smallest positive subnormal
FracBits == 4
\* bits of the modelled int (32 on the target)
IntBits == 3

RECURSIVE Pow2(_)
Pow2(n) == IF n = 0 THEN 1 ELSE 2 * Pow2(n - 1)

RECURSIVE Pow10(_)
Pow10(n) == IF n = 0 THEN 1 ELSE 10 * Pow10(n - 1)

\* magnitudes are counted in units of the smallest positive subnormal
Unit == Pow2(FracBits)
\* std::numeric_limits<double>::max(), in units
MaxMag == (Pow2(Prec) - 1) * Pow2(MaxExp)
\* INT_MAX and INT_MIN
IntMax == Pow2(IntBits - 1) - 1
IntMin == 0 - Pow2(IntBits - 1)

NaN == [cls |-> "nan", neg |-> FALSE, mag |-> 0]
Inf(neg) == [cls |-> "inf", neg |-> neg, mag |-> 0]
Fin(neg, mag) == [cls |-> "fin", neg |-> neg, mag |-> mag]
\* the value of a member before on_init has assigned it
Indeterminate == [cls |-> "indeterminate", neg |-> FALSE, mag |-> 0]

IsNaN(x) == x.cls = "nan"
IsFinite(x) == x.cls = "fin"
IsZero(x) == x.cls = "fin" /\ x.mag = 0
\* the signed number of units of a finite value
Val(x) == IF x.neg THEN 0 - x.mag ELSE x.mag
Abs(n) == IF n < 0 THEN 0 - n ELSE n

\* the representable magnitudes: m * 2^k with m < 2^Prec, 0 <= k <= MaxExp
IsRepresentable(mag) ==
  \E k \in 0..MaxExp : mag % Pow2(k) = 0 /\ mag \div Pow2(k) < Pow2(Prec)

\* Round the non-negative rational num/den (in units) to the nearest
\* representable magnitude, ties to even; overflow gives infinity.
RoundMag(num, den) ==
  IF \A k \in 0..MaxExp : num \div (den * Pow2(k)) >= Pow2(Prec)
  THEN [inf |-> TRUE, mag |-> 0, inexact |-> TRUE]
  ELSE
    LET k == CHOOSE j \in 0..MaxExp :
               /\ num \div (den * Pow2(j)) < Pow2(Prec)
               /\ \A l \in 0..(j - 1) : num \div (den * Pow2(l)) >= Pow2(Prec)
        d == den * Pow2(k)
        q == num \div d
        r == num - q * d
        up == (2 * r > d) \/ (2 * r = d /\ q % 2 = 1)
        m == (IF up THEN q + 1 ELSE q) * Pow2(k)
    IN IF m > MaxMag
       THEN [inf |-> TRUE, mag |-> 0, inexact |-> TRUE]
       ELSE [inf |-> FALSE, mag |-> m, inexact |-> (r # 0)]

Rounded(neg, num, den) ==
  LET rm == RoundMag(num, den)
  IN IF rm.inf THEN Inf(neg) ELSE Fin(neg, rm.mag)

FNeg(x) == IF IsNaN(x) THEN NaN ELSE [x EXCEPT !.neg = ~x.neg]

\* a + b on doubles
FAdd(a, b) ==
  IF IsNaN(a) \/ IsNaN(b) THEN NaN
  ELSE IF a.cls = "inf" /\ b.cls = "inf"
       THEN (IF a.neg = b.neg THEN a ELSE NaN)
  ELSE IF a.cls = "inf" THEN a
  ELSE IF b.cls = "inf" THEN b
  ELSE LET s == Val(a) + Val(b)
       IN IF s = 0 THEN Fin(a.neg /\ b.neg, 0)
          ELSE Rounded(s < 0, Abs(s), 1)

\* a - b on doubles
FSub(a, b) == FAdd(a, FNeg(b))

\* a / b on doubles
FDiv(a, b) ==
  IF IsNaN(a) \/ IsNaN(b) THEN NaN
  ELSE IF a.cls = "inf" /\ b.cls = "inf" THEN NaN
  ELSE IF IsZero(a) /\ IsZero(b) THEN NaN
  ELSE IF a.cls = "inf" THEN Inf(a.neg # b.neg)
  ELSE IF b.cls = "inf" THEN Fin(a.neg # b.neg, 0)
  ELSE IF IsZero(b) THEN Inf(a.neg # b.neg)
  ELSE Rounded(a.neg # b.neg, a.mag * Unit, b.mag)

\* int -> double (exact: IntMax < 2^Prec, as INT_MAX < 2^53)
IntToDouble(i) == Fin(i < 0, Abs(i) * Unit)

\* a < b on doubles (false when either is NaN)
FLess(a, b) ==
  IF IsNaN(a) \/ IsNaN(b) THEN FALSE
  ELSE IF a.cls = "inf" THEN a.neg /\ ~(b.cls = "inf" /\ b.neg)
  ELSE IF b.cls = "inf" THEN ~b.neg
  ELSE Val(a) < Val(b)

\* a == b on doubles (false when either is NaN, -0 == +0)
FEq(a, b) ==
  /\ ~IsNaN(a) /\ ~IsNaN(b)
  /\ a.cls = b.cls
  /\ IF a.cls = "inf" THEN a.neg = b.neg ELSE Val(a) = Val(b)

FLessEq(a, b) == FLess(a, b) \/ FEq(a, b)

(***************************************************************************)
(* std::stod on the texts of the hardware parameters.  A text is a         *)
(* sequence of characters.  The accepted grammar is an optional sign       *)
(* followed by "inf", "nan" or decimal digits with an optional point;      *)
(* anything after the longest such prefix is ignored, no such prefix       *)
(* throws std::invalid_argument and a result out of range (strtod's        *)
(* ERANGE) throws std::out_of_range.                                       *)
(***************************************************************************)
Digits == <<"0", "1", "2", "3", "4", "5", "6", "7", "8", "9">>
IsDigit(c) == \E d \in 1..Len(Digits) : Digits[d] = c
DigitVal(c) == (CHOOSE d \in 1..Len(Digits) : Digits[d] = c) - 1

\* the number of digits of str starting at position from
RECURSIVE DigitRun(_, _)
DigitRun(str, from) ==
  IF from <= Len(str) /\ IsDigit(str[from])
  THEN 1 + DigitRun(str, from + 1)
  ELSE 0

\* the decimal number written by the n digits of str starting at from
RECURSIVE Decimal(_, _, _)
Decimal(str, from, n) ==
  IF n = 0 THEN 0
  ELSE 10 * Decimal(str, from, n - 1) + DigitVal(str[from + n - 1])

HasWord(str, from, w) ==
  from + Len(w) - 1 <= Len(str) /\ SubSeq(str, from, from + Len(w) - 1) = w

Parsed(x) == [threw |-> "", val |-> x]
Thrown(what) == [threw |-> what, val |-> Indeterminate]

Stod(str) ==
  LET signed == Len(str) >= 1 /\ str[1] \in {"+", "-"}
      neg == signed /\ str[1] = "-"
      p == IF signed THEN 2 ELSE 1
      n1 == DigitRun(str, p)
      point == p + n1 <= Len(str) /\ str[p + n1] = "."
      n2 == IF point THEN DigitRun(str, p + n1 + 1) ELSE 0
      num == Decimal(str, p, n1) * Pow10(n2) + Decimal(str, p + n1 + 1, n2)
      rm == RoundMag(num * Unit, Pow10(n2))
  IN IF HasWord(str, p, <<"i", "n", "f">>) THEN Parsed(Inf(neg))
     ELSE IF HasWord(str, p, <<"n", "a", "n">>) THEN Parsed(NaN)
     ELSE IF n1 + n2 = 0 THEN Thrown("std::invalid_argument")
     ELSE IF rm.inf THEN Thrown("std::out_of_range")
     ELSE IF rm.inexact /\ rm.mag < Pow2(Prec - 1) THEN Thrown("std::out_of_range")
     ELSE Parsed(Fin(neg, rm.mag))

(***************************************************************************)
(* The host's inputs.                                                      *)
(***************************************************************************)
HW_IF_POSITION == "position"
HW_IF_VELOCITY == "velocity"

KeyStart == "example_param_hw_start_duration_sec"
KeyStop == "example_param_hw_stop_duration_sec"
KeySlowdown == "example_param_hw_slowdown"

StartTexts == {<<"0">>, <<"2">>, <<"4">>}
StopTexts == {<<"1">>, <<"x">>}
SlowdownTexts == {<<"2">>, <<"1">>, <<"0", ".", "5">>, <<"0">>, <<"n", "a", "n">>}

\* the hardware parameters of the robot description: any of the three keys
\* may be missing
ParameterMaps ==
  UNION {[keys -> StartTexts \cup StopTexts \cup SlowdownTexts] :
           keys \in SUBSET {KeyStart, KeyStop, KeySlowdown}}

HardwareParameters ==
  {m \in ParameterMaps :
     /\ KeyStart \in DOMAIN m => m[KeyStart] \in StartTexts
     /\ KeyStop \in DOMAIN m => m[KeyStop] \in StopTexts
     /\ KeySlowdown \in DOMAIN m => m[KeySlowdown] \in SlowdownTexts}

InterfaceInfo(n) == [name |-> n]
InterfaceLists ==
  {<<>>, <<InterfaceInfo(HW_IF_POSITION)>>, <<InterfaceInfo(HW_IF_VELOCITY)>>,
   <<InterfaceInfo(HW_IF_POSITION), InterfaceInfo(HW_IF_VELOCITY)>>}

\* hardware_interface::HardwareInfo with one joint
HardwareInfos ==
  {[hardware_parameters |-> m,
    joints |-> <<[name |-> "joint1", command_interfaces |-> c, state_interfaces |-> s]>>] :
     m \in HardwareParameters, c \in InterfaceLists, s \in InterfaceLists}

NoInfo == [hardware_parameters |-> <<>>, joints |-> <<>>]

\* the values the host's controller stores through the command interface
CommandValues ==
  {NaN, Fin(FALSE, 0), Fin(FALSE, Unit), Fin(FALSE, 1), Fin(FALSE, MaxMag),
   Fin(TRUE, MaxMag)}

\* std::map::operator[]: a missing key is inserted with an empty string
Lookup(m, key) == IF key \in DOMAIN m THEN m[key] ELSE <<>>

(***************************************************************************)
(* The plugin object and its host.                                         *)
(***************************************************************************)
\* iterations of a countdown loop the model follows (the loop itself is
\* bounded only by the configured duration)
MaxSleeps == 6

VARIABLES
  pc,                  \* where the host is: "constructed", "idle" (between
                       \* calls), inside on_activate / on_deactivate,
                       \* "finalized" (on_init failed), "aborted"
  info_,               \* the HardwareInfo kept by the base class
  hw_start_sec_,
  hw_stop_sec_,
  hw_slowdown_,
  hw_joint_state_,
  hw_joint_command_,
  i,                   \* the loop counter of on_activate / on_deactivate
  sleeps,              \* rclcpp::sleep_for calls of the running callback
  logs,                \* countdown messages of the running callback
  state_interfaces,    \* the vector the host got from export_state_interfaces
  command_interfaces,  \* the vector the host got from export_command_interfaces
  activated,           \* on_activate has returned at least once
  nan_stored,          \* the host has stored a NaN through the command interface
  last                 \* the last completed call: its name, what it
                       \* returned or threw, the value passed or returned

vars == <<pc, info_, hw_start_sec_, hw_stop_sec_, hw_slowdown_, hw_joint_state_,
          hw_joint_command_, i, sleeps, logs, state_interfaces,
          command_interfaces, activated, nan_stored, last>>

members == <<hw_start_sec_, hw_stop_sec_, hw_slowdown_, hw_joint_state_,
             hw_joint_command_>>
parameters == <<info_, hw_start_sec_, hw_stop_sec_, hw_slowdown_>>
loopvars == <<i, sleeps, logs>>
exported == <<state_interfaces, command_interfaces>>

NoValue == [cls |-> "none", neg |-> FALSE, mag |-> 0]
Call(op, ret, val) == [op |-> op, ret |-> ret, val |-> val]

Init ==
  /\ pc = "constructed"
  /\ info_ = NoInfo
  /\ hw_start_sec_ = Indeterminate
  /\ hw_stop_sec_ = Indeterminate
  /\ hw_slowdown_ = Indeterminate
  /\ hw_joint_state_ = Indeterminate
  /\ hw_joint_command_ = Indeterminate
  /\ i = 0
  /\ sleeps = 0
  /\ logs = 0
  /\ state_interfaces = <<>>
  /\ command_interfaces = <<>>
  /\ activated = FALSE
  /\ nan_stored = FALSE
  /\ last = Call("constructor", "", NoValue)

\* the checks without the one of the state interface's kind
InterfaceCheckSkipsStateKind(joint) ==
  IF Len(joint.command_interfaces) # 1 THEN "ERROR"
  ELSE IF joint.command_interfaces[1].name # HW_IF_POSITION THEN "ERROR"
  ELSE IF Len(joint.state_interfaces) # 1 THEN "ERROR"
  ELSE "SUCCESS"

\* the interface-shape checks of on_init
InterfaceCheck(joint) ==
  IF Len(joint.command_interfaces) # 1 THEN "ERROR"
  ELSE IF joint.command_interfaces[1].name # HW_IF_POSITION THEN "ERROR"
  ELSE IF Len(joint.state_interfaces) # 1 THEN "ERROR"
  ELSE IF joint.state_interfaces[1].name # HW_IF_POSITION THEN "ERROR"
  ELSE "SUCCESS"

\* on_init(info): base_ok is the result of ActuatorInterface::on_init, which
\* stores info in info_ when it succeeds.  An exception of stod leaves the
\* members assigned so far and escapes the callback.
on_init(info, base_ok) ==
  LET start == Stod(Lookup(info.hardware_parameters, KeyStart))
      stop == Stod(Lookup(info.hardware_parameters, KeyStop))
      slowdown == Stod(Lookup(info.hardware_parameters, KeySlowdown))
      threw == IF start.threw # "" THEN start.threw
               ELSE IF stop.threw # "" THEN stop.threw
               ELSE slowdown.threw
      result == InterfaceCheck(info.joints[1])
  IN
  /\ pc = "constructed"
  /\ UNCHANGED <<loopvars, exported, activated, nan_stored>>
  /\ IF ~base_ok
     THEN /\ last' = Call("on_init", "ERROR", NoValue)
          /\ pc' = "finalized"
          /\ UNCHANGED <<info_, members>>
     ELSE /\ info_' = info
          /\ hw_start_sec_' = IF start.threw = "" THEN start.val ELSE hw_start_sec_
          /\ hw_stop_sec_' = IF start.threw = "" /\ stop.threw = ""
                             THEN stop.val ELSE hw_stop_sec_
          /\ hw_slowdown_' = IF threw = "" THEN slowdown.val ELSE hw_slowdown_
          /\ hw_joint_state_' = IF threw = "" THEN NaN ELSE hw_joint_state_
          /\ hw_joint_command_' = IF threw = "" THEN NaN ELSE hw_joint_command_
          /\ IF threw # ""
             THEN /\ last' = Call("on_init", threw, NoValue)
                  /\ pc' = "finalized"
             ELSE /\ last' = Call("on_init", result, NoValue)
                  /\ pc' = IF result = "SUCCESS" THEN "idle" ELSE "finalized"

OnInit == \E info \in HardwareInfos, base_ok \in BOOLEAN : on_init(info, base_ok)

\* a handle: the names it was built with and the member it points to
Handle(name, interface_name, value_ptr) ==
  [name |-> name, interface_name |-> interface_name, value_ptr |-> value_ptr]

export_state_interfaces ==
  /\ pc = "idle"
  /\ state_interfaces' =
       <<Handle(info_.joints[1].name, HW_IF_POSITION, "hw_joint_state_")>>
  /\ last' = Call("export_state_interfaces", "", NoValue)
  /\ UNCHANGED <<pc, info_, members, loopvars, command_interfaces, activated, nan_stored>>

\* the command interface bound to the state member
export_command_interfaces_binds_state ==
  /\ pc = "idle"
  /\ command_interfaces' =
       <<Handle(info_.joints[1].name, HW_IF_POSITION, "hw_joint_state_")>>
  /\ last' = Call("export_command_interfaces", "", NoValue)
  /\ UNCHANGED <<pc, info_, members, loopvars, state_interfaces, activated, nan_stored>>

export_command_interfaces ==
  /\ pc = "idle"
  /\ command_interfaces' =
       <<Handle(info_.joints[1].name, HW_IF_POSITION, "hw_joint_command_")>>
  /\ last' = Call("export_command_interfaces", "", NoValue)
  /\ UNCHANGED <<pc, info_, members, loopvars, state_interfaces, activated, nan_stored>>

\* *ptr for the two members a handle can point to
Deref(ptr) ==
  IF ptr = "hw_joint_state_" THEN hw_joint_state_ ELSE hw_joint_command_

\* the host stores v through the first exported command interface
set_value(v) ==
  /\ pc = "idle"
  /\ command_interfaces # <<>>
  /\ LET ptr == command_interfaces[1].value_ptr
     IN /\ hw_joint_state_' = IF ptr = "hw_joint_state_" THEN v ELSE hw_joint_state_
        /\ hw_joint_command_' =
             IF ptr = "hw_joint_command_" THEN v ELSE hw_joint_command_
  /\ last' = Call("set_value", "", v)
  /\ nan_stored' = (nan_stored \/ IsNaN(v))
  /\ UNCHANGED <<pc, parameters, loopvars, exported, activated>>

HostSetValue == \E v \in CommandValues : set_value(v)

\* the host loads the value behind the first exported state interface
get_value ==
  /\ pc = "idle"
  /\ state_interfaces # <<>>
  /\ last' = Call("get_value", "", Deref(state_interfaces[1].value_ptr))
  /\ UNCHANGED <<pc, info_, members, loopvars, exported, activated, nan_stored>>

\* the update with the difference taken the wrong way round
ReadUpdateReversed(state, command, slowdown) ==
  FAdd(state, FDiv(FSub(state, command), slowdown))

\* the new hw_joint_state_ of read()
ReadUpdate(state, command, slowdown) ==
  FAdd(state, FDiv(FSub(command, state), slowdown))

read ==
  /\ pc = "idle"
  /\ hw_joint_state_' = ReadUpdate(hw_joint_state_, hw_joint_command_, hw_slowdown_)
  /\ last' = Call("read", "OK", NoValue)
  /\ UNCHANGED <<pc, parameters, hw_joint_command_, loopvars, exported, activated, nan_stored>>

\* a write() that applies the command to the joint at once
write_applies_command ==
  /\ pc = "idle"
  /\ hw_joint_state_' = hw_joint_command_
  /\ last' = Call("write", "OK", NoValue)
  /\ UNCHANGED <<pc, parameters, hw_joint_command_, loopvars, exported, activated, nan_stored>>

write ==
  /\ pc = "idle"
  /\ last' = Call("write", "OK", NoValue)
  /\ UNCHANGED <<pc, info_, members, loopvars, exported, activated, nan_stored>>

(***************************************************************************)
(* on_activate and on_deactivate: for (int i = 0; i < sec; i++) { sleep;   *)
(* log; }.  The host is blocked inside the callback until it returns.      *)
(***************************************************************************)
\* the loop condition i < sec: i is converted to double
LoopCondition(n, sec) == FLess(IntToDouble(n), sec)

\* the first statement of a callback and the initialisation of its loop
Enter(callback) ==
  /\ pc = "idle"
  /\ pc' = callback
  /\ i' = 0
  /\ sleeps' = 0
  /\ logs' = 0
  /\ last' = Call(callback, "running", NoValue)
  /\ UNCHANGED <<info_, members, exported, activated, nan_stored>>

\* the loop condition holds: rclcpp::sleep_for(1 s)
Sleep(callback, slept, sec) ==
  /\ pc = callback
  /\ LoopCondition(i, sec)
  /\ sleeps < MaxSleeps
  /\ sleeps' = sleeps + 1
  /\ pc' = slept
  /\ UNCHANGED <<info_, members, i, logs, exported, activated, nan_stored, last>>

\* i++ below INT_MAX
Increment(callback) ==
  /\ i < IntMax
  /\ i' = i + 1
  /\ pc' = callback

\* i++ at INT_MAX is undefined: the counter wraps (two's complement add)
IncrementWraps(callback) ==
  /\ i = IntMax
  /\ i' = IntMin
  /\ pc' = callback

\* i++ at INT_MAX is undefined: the process traps (-ftrapv, sanitizers)
IncrementTraps ==
  /\ i = IntMax
  /\ i' = i
  /\ pc' = "aborted"

\* the countdown message, then i++
Log(callback, slept) ==
  /\ pc = slept
  /\ logs' = logs + 1
  /\ \/ Increment(callback)
     \/ IncrementWraps(callback)
     \/ IncrementTraps
  /\ UNCHANGED <<info_, members, sleeps, exported, activated, nan_stored, last>>

on_activate_enter == Enter("on_activate")
on_activate_sleep == Sleep("on_activate", "on_activate_slept", hw_start_sec_)
on_activate_log == Log("on_activate", "on_activate_slept")

\* an on_activate that sets the default values on every activation
on_activate_return_always_resets ==
  /\ pc = "on_activate"
  /\ ~LoopCondition(i, hw_start_sec_)
  /\ hw_joint_state_' = Fin(FALSE, 0)
  /\ hw_joint_command_' = Fin(FALSE, 0)
  /\ pc' = "idle"
  /\ activated' = TRUE
  /\ last' = Call("on_activate", "SUCCESS", NoValue)
  /\ UNCHANGED <<parameters, loopvars, exported, nan_stored>>

\* after the loop: default values for an unset joint, then return
on_activate_return ==
  /\ pc = "on_activate"
  /\ ~LoopCondition(i, hw_start_sec_)
  /\ IF IsNaN(hw_joint_state_)
     THEN /\ hw_joint_state_' = Fin(FALSE, 0)
          /\ hw_joint_command_' = Fin(FALSE, 0)
     ELSE UNCHANGED <<hw_joint_state_, hw_joint_command_>>
  /\ pc' = "idle"
  /\ activated' = TRUE
  /\ last' = Call("on_activate", "SUCCESS", NoValue)
  /\ UNCHANGED <<parameters, loopvars, exported, nan_stored>>

on_deactivate_enter == Enter("on_deactivate")
on_deactivate_sleep == Sleep("on_deactivate", "on_deactivate_slept", hw_stop_sec_)
on_deactivate_log == Log("on_deactivate", "on_deactivate_slept")

on_deactivate_return ==
  /\ pc = "on_deactivate"
  /\ ~LoopCondition(i, hw_stop_sec_)
  /\ pc' = "idle"
  /\ last' = Call("on_deactivate", "SUCCESS", NoValue)
  /\ UNCHANGED <<info_, members, loopvars, exported, activated, nan_stored>>

Next ==
  \/ OnInit
  \/ export_state_interfaces
  \/ export_command_interfaces
  \/ HostSetValue
  \/ get_value
  \/ read
  \/ write
  \/ on_activate_enter
  \/ on_activate_sleep
  \/ on_activate_log
  \/ on_activate_return
  \/ on_deactivate_enter
  \/ on_deactivate_sleep
  \/ on_deactivate_log
  \/ on_deactivate_return

Spec == Init /\ [][Next]_vars

(***************************************************************************)
(* Properties.  A step of a call is recognised by the call it records in   *)
(* last; steps inside a callback leave last alone.                         *)
(***************************************************************************)
IsNumber(x) == x.cls \in {"fin", "inf"}

\* a configured duration that is a non-negative integer, and that integer
IsCount(sec) == IsFinite(sec) /\ (~sec.neg \/ sec.mag = 0) /\ sec.mag % Unit = 0
Count(sec) == sec.mag \div Unit

\* |a - b| for numbers a and b, exactly, in units; an infinite distance is
\* larger than every finite one (the distance of equal infinities is 0)
Far == 4 * MaxMag + 1
Distance(a, b) ==
  IF IsFinite(a) /\ IsFinite(b) THEN Abs(Val(a) - Val(b))
  ELSE IF a = b THEN 0
  ELSE Far

\* C1: every read() replaces the joint state by
\* state + (command - state) / slowdown, computed in double arithmetic from
\* the values held just before the call, leaves the command and the
\* slowdown unchanged and returns OK.
C1_ReadAssignsUpdate ==
  [][last'.op = "read" =>
       /\ hw_joint_state_' =
            FAdd(hw_joint_state_,
                 FDiv(FSub(hw_joint_command_, hw_joint_state_), hw_slowdown_))
       /\ hw_joint_command_' = hw_joint_command_
       /\ hw_slowdown_' = hw_slowdown_
       /\ last'.ret = "OK"]_vars

\* a read() has moved the state to a non-zero position short of the command
C1_Witness ==
  /\ last.op = "read"
  /\ IsFinite(hw_joint_state_) /\ hw_joint_state_.mag # 0
  /\ IsFinite(hw_joint_command_)
  /\ ~FEq(hw_joint_state_, hw_joint_command_)

\* the interface shape on_init accepts
ShapeAccepted(joint) ==
  /\ Len(joint.command_interfaces) = 1
  /\ Len(joint.state_interfaces) = 1
  /\ joint.command_interfaces[1].name = "position"
  /\ joint.state_interfaces[1].name = "position"

\* the base-class on_init has succeeded (it has stored the info)
BaseSucceeded == last.op = "on_init" /\ info_ # NoInfo

C3_ReadApproachesCommand ==
  [][(last'.op = "read" /\ IsNumber(hw_joint_state_) /\ IsNumber(hw_joint_command_)) =>
       /\ IsNumber(hw_joint_state_')
       /\ Distance(hw_joint_command_, hw_joint_state_')
            <= Distance(hw_joint_command_, hw_joint_state_)
       /\ ~FEq(hw_joint_state_, hw_joint_command_) =>
            Distance(hw_joint_command_, hw_joint_state_')
              < Distance(hw_joint_command_, hw_joint_state_)]_vars

\* C4 as stated: for a duration of N seconds, N a non-negative integer,
\* on_activate (on_deactivate) performs exactly N sleeps, each followed by
\* one countdown message, and then returns SUCCESS; the callback never ends
\* otherwise.
C4_ExactCountdown ==
  /\ pc # "aborted"
  /\ (pc \in {"on_activate", "on_activate_slept"} /\ IsCount(hw_start_sec_)) =>
       /\ sleeps <= Count(hw_start_sec_)
       /\ logs = (IF pc = "on_activate" THEN sleeps ELSE sleeps - 1)
  /\ (pc \in {"on_deactivate", "on_deactivate_slept"} /\ IsCount(hw_stop_sec_)) =>
       /\ sleeps <= Count(hw_stop_sec_)
       /\ logs = (IF pc = "on_deactivate" THEN sleeps ELSE sleeps - 1)
  /\ (last.op = "on_activate" /\ pc = "idle" /\ IsCount(hw_start_sec_)) =>
       /\ last.ret = "SUCCESS"
       /\ sleeps = Count(hw_start_sec_) /\ logs = sleeps
  /\ (last.op = "on_deactivate" /\ pc = "idle" /\ IsCount(hw_stop_sec_)) =>
       /\ last.ret = "SUCCESS"
       /\ sleeps = Count(hw_stop_sec_) /\ logs = sleeps

\* the step on which on_activate returns
ActivateReturns == last'.op = "on_activate" /\ last'.ret = "SUCCESS"

\* a slowdown for which read() is the intended low-pass step
SlowdownAtLeastOne == IsFinite(hw_slowdown_) /\ Val(hw_slowdown_) >= Unit

\* C5 as stated: on_activate sets state and command to 0 exactly when the
\* state is NaN at activation and otherwise leaves both unchanged, so an
\* activation after the first one resumes from the last state and command.
\* The last part is stated here for the configurations with a finite
\* slowdown of at least 1 only, where read() does not divide by zero.
C5_ResetOnlyOnFirstActivation ==
  [][ActivateReturns =>
       /\ IF IsNaN(hw_joint_state_)
          THEN hw_joint_state_' = Fin(FALSE, 0) /\ hw_joint_command_' = Fin(FALSE, 0)
          ELSE UNCHANGED <<hw_joint_state_, hw_joint_command_>>
       /\ (activated /\ SlowdownAtLeastOne) =>
            UNCHANGED <<hw_joint_state_, hw_joint_command_>>]_vars

\* C5 amended: on_activate sets state and command to 0 exactly when the
\* state is NaN at activation and otherwise leaves both unchanged; an
\* activation after the first one resumes from the last state and command
\* when that state is not NaN, and resets both when the state has become
\* NaN again.
C5_ResetExactlyWhenNaN ==
  [][ActivateReturns =>
       /\ IF IsNaN(hw_joint_state_)
          THEN hw_joint_state_' = Fin(FALSE, 0) /\ hw_joint_command_' = Fin(FALSE, 0)
          ELSE UNCHANGED <<hw_joint_state_, hw_joint_command_>>
       /\ (activated /\ ~IsNaN(hw_joint_state_)) =>
            UNCHANGED <<hw_joint_state_, hw_joint_command_>>]_vars

\* a later activation has returned and has kept a non-zero state
C5_Witness ==
  /\ last.op = "on_activate" /\ last.ret = "SUCCESS"
  /\ IsNumber(hw_joint_state_)
  /\ ~IsZero(hw_joint_state_)

\* C6: each export returns exactly one interface, named by the first joint
\* and of kind "position"; the value the host stores through the command
\* interface is the command of the next read(), and the value read()
\* computes is the value the host loads through the state interface.
C6_ExportsBindMembers ==
  /\ [](/\ state_interfaces # <<>> =>
             /\ Len(state_interfaces) = 1
             /\ state_interfaces[1].name = info_.joints[1].name
             /\ state_interfaces[1].interface_name = "position"
        /\ command_interfaces # <<>> =>
             /\ Len(command_interfaces) = 1
             /\ command_interfaces[1].name = info_.joints[1].name
             /\ command_interfaces[1].interface_name = "position")
  /\ [][/\ (last.op = "set_value" /\ last'.op = "read") =>
             hw_joint_state_' =
               FAdd(hw_joint_state_,
                    FDiv(FSub(last.val, hw_joint_state_), hw_slowdown_))
        /\ (last.op = "read" /\ last'.op = "get_value") =>
             last'.val = hw_joint_state_]_vars

\* the host has loaded, through the state interface, a non-zero position
\* that read() computed from a command stored through the command interface
C6_Witness ==
  /\ last.op = "get_value"
  /\ IsFinite(last.val) /\ last.val.mag # 0
  /\ command_interfaces # <<>>

\* C7: write() leaves the joint state, the command and the configured
\* parameters unchanged and returns OK; a position changes only in read().
C7_WriteChangesNothing ==
  [][/\ last'.op = "write" =>
          /\ UNCHANGED <<info_, members>>
          /\ last'.ret = "OK"
     /\ (IsNumber(hw_joint_state_) /\ hw_joint_state_' # hw_joint_state_) =>
          last'.op = "read"]_vars

\* write() has returned while the joint holds a non-zero position that
\* differs from the command
C7_Witness ==
  /\ last.op = "write"
  /\ IsFinite(hw_joint_state_) /\ hw_joint_state_.mag # 0
  /\ hw_joint_command_ # hw_joint_state_

\* C8 as stated: once on_activate has completed after a successful on_init
\* the state is not NaN, whatever sequence of read, write, on_deactivate and
\* on_activate follows, if the host stores only defined values; a read()
\* before the first activation leaves the state unset.
C8_DefinedOnceActivated ==
  /\ (activated /\ ~nan_stored) => ~IsNaN(hw_joint_state_)
  /\ (~activated /\ last.op = "read") => IsNaN(hw_joint_state_)

\* C9 as stated: with the command held constant read() never takes the
\* state to the other side of the command, and a state equal to the command
\* is a fixed point of read().
C9_ReadNeverOvershoots ==
  [][last'.op = "read" =>
       /\ FLessEq(hw_joint_state_, hw_joint_command_) =>
            FLessEq(hw_joint_state_', hw_joint_command_)
       /\ FLessEq(hw_joint_command_, hw_joint_state_) =>
            FLessEq(hw_joint_command_, hw_joint_state_')
       /\ FEq(hw_joint_state_, hw_joint_command_) =>
            FEq(hw_joint_state_', hw_joint_state_)]_vars

====
